---- MODULE Spec2Model ----
(***************************************************************************)
(* timedeltafmt: TimedeltaFormatter (unit registry, tokenizing parser,     *)
(* greedy decomposition formatter) and the module-level default formatter. *)
(*                                                                         *)
(* Representation.                                                         *)
(*  - A Python str is a sequence of one-character strings; positions in    *)
(*    the operators below are Python's 0-based indexes.                    *)
(*  - A unit duration is a record [num, den, float]: an int has den = 1    *)
(*    and float = FALSE; a float is the exact ratio num/den in lowest      *)
(*    terms (float.as_integer_ratio).  Only finite floats whose            *)
(*    denominator divides ten2fifteen are modelled.                        *)
(*  - A dict is a sequence of [unit, dt] records in insertion order.       *)
(*  - TLC's integers are 32 bits wide, Python's are unbounded: every value *)
(*    of the model stays below HOUR (3.6 * 10^9 microseconds), so the      *)
(*    default table ends at MINUTE (the larger output units are always     *)
(*    skipped by the "abs(us) < duration" test for such values).           *)
(***************************************************************************)
EXTENDS Integers, Sequences, FiniteSets, TLC

VARIABLES self, args, call, ret

vars == <<self, args, call, ret>>

(***************************************************************************)
(* Bounds of the model                                                     *)
(***************************************************************************)
\* parse_int is applied to every string over Alphabet of at most MaxLen characters
MaxLen == 3
\* format_int is applied to every value in -MaxUs .. MaxUs (and to Landmarks)
MaxUs == 8

(***************************************************************************)
(* Module constants                                                        *)
(***************************************************************************)
MICROSECOND == 1
MILLISECOND == MICROSECOND * 1000
SECOND == MILLISECOND * 1000
MINUTE == SECOND * 60
\* DAY / SECOND = (MINUTE/SECOND) * (HOUR/MINUTE) * (DAY/HOUR)
DAY_SECONDS == 60 * 60 * 24

(***************************************************************************)
(* Characters and strings                                                  *)
(***************************************************************************)
\* the characters of the model, in code point order
Chars == <<" ", "+", "-", "0", "1", "2", "3", "4", "5", "6", "7", "8", "9",
           "a", "c", "d", "e", "h", "i", "m", "n", "o", "s", "u", "z">>

Ord(c) == CHOOSE i \in DOMAIN Chars : Chars[i] = c

Digits == <<"0", "1", "2", "3", "4", "5", "6", "7", "8", "9">>

IsDigit(c) == \E i \in DOMAIN Digits : Digits[i] = c

DigitValue(c) == (CHOOSE i \in DOMAIN Digits : Digits[i] = c) - 1

\* \s: the blank is the only whitespace character of the model
IsSpace(c) == c = " "

Min(a, b) == IF a < b THEN a ELSE b

\* string[i:j]
Slice(s, i, j) == SubSeq(s, i + 1, Min(j, Len(s)))

\* str < str: lexicographic by code point
RECURSIVE StrLess(_, _)
StrLess(a, b) ==
    IF b = <<>> THEN FALSE
    ELSE IF a = <<>> THEN TRUE
    ELSE IF Ord(Head(a)) # Ord(Head(b)) THEN Ord(Head(a)) < Ord(Head(b))
    ELSE StrLess(Tail(a), Tail(b))

\* str.strip()
RECURSIVE LStrip(_)
LStrip(s) == IF s # <<>> /\ IsSpace(Head(s)) THEN LStrip(Tail(s)) ELSE s

RECURSIVE RStrip(_)
RStrip(s) ==
    IF s # <<>> /\ IsSpace(s[Len(s)]) THEN RStrip(SubSeq(s, 1, Len(s) - 1)) ELSE s

Strip(s) == RStrip(LStrip(s))

\* str(n) for n >= 0
RECURSIVE NatToStr(_)
NatToStr(n) ==
    IF n < 10 THEN <<Digits[n + 1]>>
    ELSE Append(NatToStr(n \div 10), Digits[(n % 10) + 1])

\* f'{n}'
IntToStr(n) == IF n < 0 THEN <<"-">> \o NatToStr(-n) ELSE NatToStr(n)

RECURSIVE DigitsToNat(_, _)
DigitsToNat(s, acc) ==
    IF s = <<>> THEN acc ELSE DigitsToNat(Tail(s), acc * 10 + DigitValue(Head(s)))

\* int(s) for s matching [-+]?\d+
StrToInt(s) ==
    IF Head(s) = "-" THEN -DigitsToNat(Tail(s), 0)
    ELSE IF Head(s) = "+" THEN DigitsToNat(Tail(s), 0)
    ELSE DigitsToNat(s, 0)

\* ' '.join(strs)
RECURSIVE Join(_)
Join(strs) ==
    IF strs = <<>> THEN <<>>
    ELSE IF Len(strs) = 1 THEN strs[1]
    ELSE strs[1] \o <<" ">> \o Join(Tail(strs))

(***************************************************************************)
(* Numbers                                                                 *)
(***************************************************************************)
Int_(n) == [num |-> n, den |-> 1, float |-> FALSE]

Float(n, d) == [num |-> n, den |-> d, float |-> TRUE]

\* a < b for unit durations
DtLess(a, b) == a.num * b.den < b.num * a.den

\* int < duration
IntLess(us, dt) == us * dt.den < dt.num

Abs(n) == IF n < 0 THEN -n ELSE n

\* rounding toward zero: the integer part modf() and int() keep
Trunc(n, d) == IF n >= 0 THEN n \div d ELSE -((-n) \div d)

RECURSIVE GCD(_, _)
GCD(a, b) == IF b = 0 THEN a ELSE GCD(b, a % b)

\* exact sum of two ratios <<n, d>> (the floats of the model add without rounding)
RatAdd(a, b) ==
    LET n == a[1] * b[2] + b[1] * a[2]
        d == a[2] * b[2]
        g == GCD(Abs(n), d)
    IN  <<n \div g, d \div g>>

(***************************************************************************)
(* TimedeltaFormatter.__init__                                             *)
(***************************************************************************)
\* u in durations
HasKey(durations, u) == \E i \in DOMAIN durations : durations[i].unit = u

\* durations[u]
GetItem(durations, u) ==
    durations[CHOOSE i \in DOMAIN durations : durations[i].unit = u].dt

\* "if dt <= 0: raise ValueError" for some unit
HasBadDuration(durations) == \E i \in DOMAIN durations : durations[i].dt.num <= 0

\* "if dt.is_integer(): durations[unit] = int(dt)"
CastIntegral(durations) ==
    [i \in DOMAIN durations |->
        [unit |-> durations[i].unit,
         dt   |-> IF durations[i].dt.float /\ durations[i].dt.den = 1
                  THEN Int_(durations[i].dt.num)
                  ELSE durations[i].dt]]

\* i, the first place of a descending list whose key is below dt (its end if none)
RECURSIVE PlaceDesc(_, _, _, _)
PlaceDesc(durations, sorted, dt, i) ==
    IF i > Len(sorted) \/ DtLess(GetItem(durations, sorted[i]), dt) THEN i
    ELSE PlaceDesc(durations, sorted, dt, i + 1)

\* variant: the output units are left in the caller's order
SortFormatUnits_Unsorted(durations, todo, sorted) == todo

\* format_units.sort(key=durations.__getitem__, reverse=True): a stable sort, so
\* units of equal duration keep the order in which the caller listed them
RECURSIVE SortFormatUnits(_, _, _)
SortFormatUnits(durations, todo, sorted) ==
    IF todo = <<>> THEN sorted
    ELSE LET u == Head(todo)
             i == PlaceDesc(durations, sorted, GetItem(durations, u), 1)
         IN  SortFormatUnits(durations, Tail(todo),
                 SubSeq(sorted, 1, i - 1) \o <<u>> \o SubSeq(sorted, i, Len(sorted)))

RECURSIVE PlaceName(_, _, _)
PlaceName(sorted, u, i) ==
    IF i > Len(sorted) \/ StrLess(sorted[i], u) THEN i
    ELSE PlaceName(sorted, u, i + 1)

\* sorted(durations.keys(), reverse=True): the alternatives of the pattern, in the
\* order the regex engine tries them (the empty name stands for (?!\D))
RECURSIVE SortedKeys(_, _)
SortedKeys(durations, sorted) ==
    IF durations = <<>> THEN sorted
    ELSE LET u == Head(durations).unit
             i == PlaceName(sorted, u, 1)
         IN  SortedKeys(Tail(durations),
                 SubSeq(sorted, 1, i - 1) \o <<u>> \o SubSeq(sorted, i, Len(sorted)))

\* the two advisory warnings of the constructor
Warnings(durations, sortedUnits) ==
    (IF sortedUnits # <<>>
        /\ DtLess(Int_(MICROSECOND), GetItem(durations, sortedUnits[Len(sortedUnits)]))
     THEN {"smallest duration is greater than one microsecond"} ELSE {})
    \cup
    (IF \E i \in DOMAIN sortedUnits : GetItem(durations, sortedUnits[i]).float
     THEN {"non-integral unit"} ELSE {})

ConstructionError ==
    [status |-> "ValueError", parse_pattern |-> <<>>, parse_durations |-> <<>>,
     format_units |-> <<>>, warnings |-> {}]

\* TimedeltaFormatter(durations, format_units)
TimedeltaFormatter(durations, format_units) ==
    IF HasBadDuration(durations) THEN ConstructionError
    ELSE IF \E i \in DOMAIN format_units : ~HasKey(durations, format_units[i])
    THEN ConstructionError
    ELSE LET ds     == CastIntegral(durations)
             sorted == SortFormatUnits(ds, format_units, <<>>)
         IN  [status          |-> "ok",
              parse_pattern   |-> SortedKeys(ds, <<>>),
              parse_durations |-> ds,
              format_units    |-> [i \in DOMAIN sorted |->
                                      [unit |-> sorted[i], dt |-> GetItem(ds, sorted[i])]],
              warnings        |-> Warnings(ds, sorted)]

(***************************************************************************)
(* make_formatter and the module-level formatter                           *)
(***************************************************************************)
\* the inner loop "for u in units": None once a unit is repeated
RECURSIVE AddUnits(_, _, _)
AddUnits(durations, dt, units) ==
    IF units = <<>> THEN [ok |-> TRUE, durations |-> durations]
    ELSE IF HasKey(durations, Head(units)) THEN [ok |-> FALSE, durations |-> durations]
    ELSE AddUnits(Append(durations, [unit |-> Head(units), dt |-> dt]), dt, Tail(units))

\* the outer loop "for dt, units in time_units.items()"
RECURSIVE CollectUnits(_, _, _, _)
CollectUnits(time_units, durations, formats, given) ==
    IF time_units = <<>> THEN [ok |-> TRUE, durations |-> durations, formats |-> formats]
    ELSE LET e   == Head(time_units)
             add == AddUnits(durations, e.dt, e.units)
         IN  IF ~add.ok THEN [ok |-> FALSE, durations |-> durations, formats |-> formats]
             ELSE CollectUnits(Tail(time_units), add.durations,
                      IF ~given /\ e.units # <<>> THEN Append(formats, e.units[1])
                      ELSE formats,
                      given)

\* make_formatter(time_units, format_units); given = FALSE stands for format_units=None
make_formatter(time_units, format_units, given) ==
    LET c == CollectUnits(time_units, <<>>, IF given THEN format_units ELSE <<>>, given)
    IN  IF ~c.ok THEN ConstructionError ELSE TimedeltaFormatter(c.durations, c.formats)

\* the table of _FORMATTER up to MINUTE, without the longest aliases
DefaultTimeUnits ==
    << [dt |-> Int_(MICROSECOND), units |-> << <<"u","s">>, <<"u","s","e","c">> >>],
       [dt |-> Int_(MILLISECOND), units |-> << <<"m","s">>, <<"m","s","e","c">>,
                                               <<"m","s","e","c","s">> >>],
       [dt |-> Int_(SECOND),      units |-> << <<"s">>, <<"s","e","c">>, <<"s","e","c","s">>,
                                               <<"s","e","c","o","n","d">>,
                                               <<"s","e","c","o","n","d","s">>, <<>> >>],
       [dt |-> Int_(MINUTE),      units |-> << <<"m">>, <<"m","i","n">>,
                                               <<"m","i","n","s">> >>] >>

DefaultFormatUnits == << <<"u","s">>, <<"m","s">>, <<"s">>, <<"m">> >>

_FORMATTER == make_formatter(DefaultTimeUnits, DefaultFormatUnits, TRUE)

(***************************************************************************)
(* The tokenizing pattern  ([-+]?\d+)(name|...|(?!\D))\s*                  *)
(* (registries of the model are never empty, so neither is the alternation)*)
(***************************************************************************)
NoMatch == [found |-> FALSE, start |-> 0, end |-> 0, group1 |-> <<>>, group2 |-> <<>>]

\* the number of digits at s[i:]
RECURSIVE DigitRun(_, _)
DigitRun(s, i) == IF i < Len(s) /\ IsDigit(s[i + 1]) THEN 1 + DigitRun(s, i + 1) ELSE 0

\* the number of whitespace characters at s[i:]
RECURSIVE SpaceRun(_, _)
SpaceRun(s, i) == IF i < Len(s) /\ IsSpace(s[i + 1]) THEN 1 + SpaceRun(s, i + 1) ELSE 0

\* (?!\D) at index e: a negative lookahead, it fails when a non-digit follows
EmptyUnitMatches(s, e) == ~(e < Len(s) /\ ~IsDigit(s[e + 1]))

\* re.escape(u) at index e, or the lookahead for the empty name
AltMatches(s, e, u) ==
    IF u = <<>> THEN EmptyUnitMatches(s, e) ELSE Slice(s, e, e + Len(u)) = u

\* the first alternative, in the pattern's order, that matches at e (0: none does)
RECURSIVE FirstAlt(_, _, _, _)
FirstAlt(pattern, s, e, i) ==
    IF i > Len(pattern) THEN 0
    ELSE IF AltMatches(s, e, pattern[i]) THEN i
    ELSE FirstAlt(pattern, s, e, i + 1)

\* \d+ is greedy: k digits are tried from the whole run down to one digit; after
\* the alternation \s* cannot fail, so the first alternative that matches is kept
RECURSIVE MatchDigits(_, _, _, _, _)
MatchDigits(pattern, s, p, d0, k) ==
    IF k = 0 THEN NoMatch
    ELSE LET a == FirstAlt(pattern, s, d0 + k, 1)
         IN  IF a = 0 THEN MatchDigits(pattern, s, p, d0, k - 1)
             ELSE LET e == d0 + k + Len(pattern[a])
                  IN  [found  |-> TRUE, start |-> p, end |-> e + SpaceRun(s, e),
                       group1 |-> Slice(s, p, d0 + k), group2 |-> pattern[a]]

\* pattern.match(s, p): an optional sign, then the digits
MatchAt(pattern, s, p) ==
    LET d0 == IF p < Len(s) /\ s[p + 1] \in {"-", "+"} THEN p + 1 ELSE p
    IN  MatchDigits(pattern, s, p, d0, DigitRun(s, d0))

\* the next match finditer yields when scanning from p: the leftmost one
RECURSIVE Search(_, _, _)
Search(pattern, s, p) ==
    IF p >= Len(s) THEN NoMatch
    ELSE LET m == MatchAt(pattern, s, p)
         IN  IF m.found THEN m ELSE Search(pattern, s, p + 1)

(***************************************************************************)
(* Results of a call                                                       *)
(***************************************************************************)
\* datetime.timedelta(microseconds=us), normalised as the standard library does
timedelta(us) ==
    [days         |-> (us \div SECOND) \div DAY_SECONDS,
     seconds      |-> (us \div SECOND) % DAY_SECONDS,
     microseconds |-> us % SECOND]

NoRet ==
    [status |-> "none", int |-> 0, str |-> <<>>, index |-> 0, excerpt |-> <<>>,
     parts |-> <<>>, steps |-> <<>>, delta |-> timedelta(0)]

ReturnInt(n) == [NoRet EXCEPT !.status = "ok", !.int = n]

ReturnStr(s, parts, steps) ==
    [NoRet EXCEPT !.status = "ok", !.str = s, !.parts = parts, !.steps = steps]

ReturnDelta(n) == [NoRet EXCEPT !.status = "ok", !.int = n, !.delta = timedelta(n)]

\* raise ValueError(f"Invalid character at index {pos}: {string[pos:pos + 10]!r}")
InvalidCharacter(s, pos) ==
    [NoRet EXCEPT !.status = "ValueError", !.index = pos,
                  !.excerpt = Slice(s, pos, pos + 10)]

(***************************************************************************)
(* TimedeltaFormatter.parse_int                                            *)
(***************************************************************************)
\* the loop over finditer: error = TRUE when a match does not start at pos
RECURSIVE ParseLoop(_, _, _, _, _)
ParseLoop(f, s, pos, us, carry) ==
    LET m == Search(f.parse_pattern, s, pos)
    IN  IF ~m.found THEN [error |-> FALSE, pos |-> pos, us |-> us, carry |-> carry]
        ELSE IF m.start # pos
        THEN [error |-> TRUE, pos |-> pos, us |-> us, carry |-> carry]
        ELSE LET k == StrToInt(m.group1)
                 d == GetItem(f.parse_durations, m.group2)
             IN  IF ~d.float
                 THEN ParseLoop(f, s, m.end, us + k * d.num, carry)
                 ELSE \* frac, dt = modf(k * d)
                      LET whole == Trunc(k * d.num, d.den)
                          frac  == <<k * d.num - whole * d.den, d.den>>
                      IN  ParseLoop(f, s, m.end, us + whole, RatAdd(carry, frac))

\* variant: characters left after the last match are not checked
ParseFinish_NoTrailingCheck(s, l) ==
    IF l.error THEN InvalidCharacter(s, l.pos)
    ELSE IF l.carry[1] # 0 THEN ReturnInt(l.us + Trunc(l.carry[1], l.carry[2]))
    ELSE ReturnInt(l.us)

\* the check after the loop, and the carry folded into the total
ParseFinish(s, l) ==
    IF l.error \/ l.pos # Len(s) THEN InvalidCharacter(s, l.pos)
    ELSE IF l.carry[1] # 0 THEN ReturnInt(l.us + Trunc(l.carry[1], l.carry[2]))
    ELSE ReturnInt(l.us)

parse_int(f, string) ==
    LET s == Strip(string)
    IN  ParseFinish(s, ParseLoop(f, s, 0, 0, <<0, 1>>))

\* parse: timedelta(microseconds=self.parse_int(string))
parse(f, string) ==
    LET r == parse_int(f, string)
    IN  IF r.status = "ok" THEN ReturnDelta(r.int) ELSE r

(***************************************************************************)
(* TimedeltaFormatter.format_int                                           *)
(***************************************************************************)
\* 10 ** 15 in the source.  The model keeps three of the fifteen digits, so that
\* us * ten2fifteen fits TLC's integers: frac is counted in units of 10 ** 12, which
\* is exact for the float durations of the model (their denominators divide 1000)
ten2fifteen == 1000

\* variant: the quotient is taken and the remaining magnitude is left as it was
IntDivmod_KeepUs(us, dt) == [n |-> us \div dt.num, us |-> us]

\* divmod(us, duration) for an int duration
IntDivmod(us, dt) == [n |-> us \div dt.num, us |-> us % dt.num]

\* variant: the remainder rt is kept without being divided by dem
ExactRatio_RawRemainder(us, dt) ==
    [n |-> (us * dt.den) \div dt.num, r |-> (us * dt.den) % dt.num, z |-> 0]

\* n, rt = divmod(us * dem, num); r, z = divmod(rt, dem)
ExactRatio(us, dt) ==
    LET n  == (us * dt.den) \div dt.num
        rt == (us * dt.den) % dt.num
    IN  [n |-> n, r |-> rt \div dt.den, z |-> rt % dt.den]

\* n, r = divmod(us * ten2fifteen + frac, int(duration * ten2fifteen))
\* us, frac = divmod(r, ten2fifteen)
Approximate(us, frac, dt) ==
    LET scaled == (dt.num * ten2fifteen) \div dt.den
        n      == (us * ten2fifteen + frac) \div scaled
        r      == (us * ten2fifteen + frac) % scaled
    IN  [n |-> n, us |-> r \div ten2fifteen, frac |-> r % ten2fifteen]

\* the count of one unit and what remains: divmod for an int duration; for a float
\* the exact ratio when z == 0, the fifteen-digit approximation otherwise
DivideByUnit(st, u) ==
    IF ~u.dt.float
    THEN [n |-> IntDivmod(st.us, u.dt).n, us |-> IntDivmod(st.us, u.dt).us,
          frac |-> st.frac]
    ELSE LET x == ExactRatio(st.us, u.dt)
         IN  IF x.z = 0 THEN [n |-> x.n, us |-> x.r, frac |-> st.frac]
             ELSE Approximate(st.us, st.frac, u.dt)

\* variant: only the first part carries the sign
EmitUnit_LeadingSign(st, sign, u) ==
    LET q == DivideByUnit(st, u)
    IN  [us    |-> q.us,
         frac  |-> q.frac,
         parts |-> Append(st.parts,
                      [n |-> IF st.parts = <<>> THEN q.n * sign ELSE q.n, unit |-> u.unit]),
         steps |-> Append(st.steps, [us |-> st.us, r |-> q.us])]

\* one unit that is neither below the resolution nor too large for us: the part
\* appended, with the remaining magnitude before and after it (steps)
EmitUnit(st, sign, u) ==
    LET q == DivideByUnit(st, u)
    IN  [us    |-> q.us,
         frac  |-> q.frac,
         parts |-> Append(st.parts, [n |-> q.n * sign, unit |-> u.unit]),
         steps |-> Append(st.steps, [us |-> st.us, r |-> q.us])]

\* variant: the loop also stops when us equals the resolution
BelowResolution_Inclusive(us, resolution) == us <= resolution

\* "if us < resolution: break"
BelowResolution(us, resolution) == us < resolution

\* "for unit, duration in units"
RECURSIVE FormatLoop(_, _, _, _, _)
FormatLoop(units, i, sign, resolution, st) ==
    IF i > Len(units) THEN st
    ELSE IF BelowResolution(st.us, resolution) THEN st
    ELSE IF IntLess(Abs(st.us), units[i].dt)
    THEN FormatLoop(units, i + 1, sign, resolution, st)
    ELSE FormatLoop(units, i + 1, sign, resolution, EmitUnit(st, sign, units[i]))

\* f'{n * sign}{unit}' for every part
RenderParts(parts) == [i \in DOMAIN parts |-> IntToStr(parts[i].n) \o parts[i].unit]

NoFormatUnits == [NoRet EXCEPT !.status = "RuntimeError"]

format_int(f, us, resolution, zero) ==
    IF f.format_units = <<>> THEN NoFormatUnits
    ELSE LET sign == IF us >= 0 THEN 1 ELSE -1
             st   == FormatLoop(f.format_units, 1, sign, resolution,
                         [us |-> us * sign, frac |-> 0, parts |-> <<>>, steps |-> <<>>])
         IN  ReturnStr(IF st.parts # <<>> THEN Join(RenderParts(st.parts)) ELSE zero,
                       st.parts, st.steps)

\* delta.days * DAY + delta.seconds * SECOND + delta.microseconds
TotalMicroseconds(delta) ==
    (delta.days * DAY_SECONDS + delta.seconds) * SECOND + delta.microseconds

\* format(delta, resolution, zero)
format(f, delta, resolution, zero) ==
    format_int(f, TotalMicroseconds(delta), resolution, zero)

\* the module-level functions
parse_timedelta(string) == parse(_FORMATTER, string)

format_timedelta(delta, resolution, zero) == format(_FORMATTER, delta, resolution, zero)

(***************************************************************************)
(* Inputs                                                                  *)
(***************************************************************************)
\* the registry of test_fractional_format: 'ha' is the float 3 / 2
Fractional ==
    << [unit |-> <<"m","s">>, dt |-> Int_(MICROSECOND)],
       [unit |-> <<"h","a">>, dt |-> Float(3, 2)] >>

\* a registry with two names of one duration, one of them given as the float 1000.0
Aliased ==
    << [unit |-> <<"u","s">>, dt |-> Int_(MICROSECOND)],
       [unit |-> <<"m","s">>, dt |-> Int_(MILLISECOND)],
       [unit |-> <<"m","s","e","c">>, dt |-> Float(MILLISECOND, 1)] >>

\* a registry the constructor rejects
Rejected == << [unit |-> <<"z">>, dt |-> Int_(0)] >>

Reversed(s) == [i \in DOMAIN s |-> s[Len(s) + 1 - i]]

\* the arguments given to TimedeltaFormatter(...): each mapping in two insertion
\* orders, with several lists of output units
CtorArgs ==
    { [durations |-> d, format_units |-> f] :
        d \in {Fractional, Reversed(Fractional)},
        f \in { << <<"h","a">>, <<"m","s">> >>, << <<"m","s">>, <<"h","a">> >>,
                << <<"h","a">> >>, << <<"z">> >> } }
    \cup
    { [durations |-> d, format_units |-> f] :
        d \in {Aliased, Reversed(Aliased)},
        f \in { << <<"m","s">>, <<"m","s","e","c">>, <<"u","s">> >>,
                << <<"u","s">>, <<"m","s","e","c">>, <<"m","s">> >>,
                << <<"u","s">>, <<"m","s">> >>,
                << <<"m","s">> >>, <<>> } }
    \cup
    { [durations |-> Rejected, format_units |-> <<>>] }

\* what make_formatter hands to the constructor for _FORMATTER
DefaultArgs ==
    [durations    |-> CollectUnits(DefaultTimeUnits, <<>>, DefaultFormatUnits, TRUE).durations,
     format_units |-> DefaultFormatUnits]

Alphabet == {"1", " ", "-", "s", "z"}

Strings == UNION { [1..k -> Alphabet] : k \in 0..MaxLen }

\* strings of the tests: '1secondz', ' 1m -10s ', '1s1s'
Named ==
    { <<"1","s","e","c","o","n","d","z">>,
      <<" ","1","m"," ","-","1","0","s"," ">>,
      <<"1","s","1","s">> }

\* the single tokens of a formatter: an optional sign, digits, a registered name
Tokens(f) ==
    { n \o f.parse_pattern[i] :
        n \in { <<"2">>, <<"-","1","0">>, <<"+","3">> },
        i \in DOMAIN f.parse_pattern }

TokenPairs(f) == { a \o <<" ">> \o b : a \in Tokens(f), b \in Tokens(f) }

HasFloatUnit(f) == \E i \in DOMAIN f.format_units : f.format_units[i].dt.float

Landmarks ==
    { 999, 1000, 1001, 1500, 1000000, 1100000, 3000000, 59999999, 60000000, 61001001 }

\* the magnitudes format_int is applied to (below 2^31 / ten2fifteen for a float unit)
Values(f) ==
    (-MaxUs .. MaxUs) \cup
    (IF HasFloatUnit(f) THEN {} ELSE Landmarks \cup { -v : v \in Landmarks })

Resolutions == {0, 1, 2, MILLISECOND, SECOND}

Zeros == { <<"0">>, <<>> }

(***************************************************************************)
(* State machine: a formatter object, and one call at a time on it         *)
(***************************************************************************)
Idle ==
    [op |-> "idle", string |-> <<>>, us |-> 0, delta |-> timedelta(0),
     resolution |-> 0, zero |-> <<>>, roundtrip |-> FALSE]

\* importing the module builds _FORMATTER
Init ==
    /\ self = _FORMATTER
    /\ args = DefaultArgs
    /\ call = Idle
    /\ ret = NoRet

Construct(a) ==
    /\ call.op = "idle"
    /\ self' = TimedeltaFormatter(a.durations, a.format_units)
    /\ args' = a
    /\ UNCHANGED <<call, ret>>

ParseInt(s) ==
    /\ call.op = "idle"
    /\ self.status = "ok"
    /\ call' = [Idle EXCEPT !.op = "parse_int", !.string = s]
    /\ ret' = parse_int(self, s)
    /\ UNCHANGED <<self, args>>

Parse(s) ==
    /\ call.op = "idle"
    /\ self.status = "ok"
    /\ call' = [Idle EXCEPT !.op = "parse", !.string = s]
    /\ ret' = parse(self, s)
    /\ UNCHANGED <<self, args>>

FormatInt(us, resolution, zero) ==
    /\ call.op = "idle"
    /\ self.status = "ok"
    /\ call' = [Idle EXCEPT !.op = "format_int", !.us = us, !.resolution = resolution,
                            !.zero = zero]
    /\ ret' = format_int(self, us, resolution, zero)
    /\ UNCHANGED <<self, args>>

\* format(delta, resolution) with the default zero text
Format(delta, resolution) ==
    /\ call.op = "idle"
    /\ self.status = "ok"
    /\ call' = [Idle EXCEPT !.op = "format", !.delta = delta,
                            !.us = TotalMicroseconds(delta),
                            !.resolution = resolution, !.zero = <<"0">>]
    /\ ret' = format(self, delta, resolution, <<"0">>)
    /\ UNCHANGED <<self, args>>

\* the string a format_int call returned is handed to parse_int
ParseBack ==
    /\ call.op = "format_int"
    /\ ret.status = "ok"
    /\ call' = [call EXCEPT !.op = "parse_int", !.string = ret.str, !.roundtrip = TRUE]
    /\ ret' = parse_int(self, ret.str)
    /\ UNCHANGED <<self, args>>

ParseTimedelta(s) ==
    /\ call.op = "idle"
    /\ call' = [Idle EXCEPT !.op = "parse_timedelta", !.string = s]
    /\ ret' = parse_timedelta(s)
    /\ UNCHANGED <<self, args>>

\* format_timedelta(delta) with its default resolution and zero text
FormatTimedelta(delta) ==
    /\ call.op = "idle"
    /\ call' = [Idle EXCEPT !.op = "format_timedelta", !.delta = delta,
                            !.us = TotalMicroseconds(delta),
                            !.resolution = MILLISECOND, !.zero = <<"0">>]
    /\ ret' = format_timedelta(delta, MILLISECOND, <<"0">>)
    /\ UNCHANGED <<self, args>>

\* the call's result is consumed; the formatter is unchanged
Done ==
    /\ call.op # "idle"
    /\ call' = Idle
    /\ ret' = NoRet
    /\ UNCHANGED <<self, args>>

Next ==
    \/ \E a \in CtorArgs : Construct(a)
    \/ \E s \in Strings \cup Named \cup TokenPairs(self) : ParseInt(s)
    \/ \E s \in Named : Parse(s)
    \/ \E us \in Values(self), r \in Resolutions, z \in Zeros : FormatInt(us, r, z)
    \/ \E us \in Values(self), r \in {1, MILLISECOND} : Format(timedelta(us), r)
    \/ ParseBack
    \/ \E s \in Named : ParseTimedelta(s)
    \/ \E us \in Values(_FORMATTER) : FormatTimedelta(timedelta(us))
    \/ Done

Spec == Init /\ [][Next]_vars

(***************************************************************************)
(* Properties                                                              *)
(***************************************************************************)
\* the formatter a call runs on: the module-level functions use _FORMATTER
Callee ==
    IF call.op \in {"parse_timedelta", "format_timedelta"} THEN _FORMATTER ELSE self

Formatting == call.op \in {"format_int", "format", "format_timedelta"}

Duration(u) == GetItem(Callee.parse_durations, u)

IntegerUnits(f) == \A i \in DOMAIN f.format_units : ~f.format_units[i].dt.float

SmallestOutput(f) == f.format_units[Len(f.format_units)].dt

\* some registered unit lasts one microsecond and none is shorter
SmallestParseableIsOne(f) ==
    /\ \E i \in DOMAIN f.parse_durations : f.parse_durations[i].dt = Int_(MICROSECOND)
    /\ \A i \in DOMAIN f.parse_durations :
           ~DtLess(f.parse_durations[i].dt, Int_(MICROSECOND))

\* no registered name holds a digit, a sign or whitespace, and no output unit has the
\* empty name
PlainNames(f) ==
    /\ \A i \in DOMAIN f.parse_pattern :
           \A j \in DOMAIN f.parse_pattern[i] :
               LET c == f.parse_pattern[i][j]
               IN  ~IsDigit(c) /\ ~IsSpace(c) /\ c \notin {"-", "+"}
    /\ \A i \in DOMAIN f.format_units : f.format_units[i].unit # <<>>

RoundTripCall ==
    /\ call.op = "parse_int"
    /\ call.roundtrip
    /\ call.resolution = 1
    /\ call.zero = <<"0">>

\* C1 as stated: for every formatter whose smallest parseable unit is exactly one
\* microsecond and every v, parse_int(format_int(v, resolution=1)) == v
C1_RoundTripAsStated ==
    (RoundTripCall /\ SmallestParseableIsOne(self))
        => (ret.status = "ok" /\ ret.int = call.us)

\* C1 as amended: parse_int(format_int(v, resolution=1)) == v when every output unit
\* has an integer duration, the smallest output unit lasts exactly one microsecond,
\* no registered name holds a digit, a sign or whitespace, no output unit has the
\* empty name, and v is not 0 or the empty unit name is registered (the zero text
\* "0" is then a token)
C1_RoundTrip ==
    (/\ RoundTripCall
     /\ IntegerUnits(self)
     /\ SmallestOutput(self) = Int_(MICROSECOND)
     /\ PlainNames(self)
     /\ (call.us # 0 \/ HasKey(self.parse_durations, <<>>)))
        => (ret.status = "ok" /\ ret.int = call.us)

C1_Witness ==
    /\ RoundTripCall
    /\ self = _FORMATTER
    /\ call.us = -61001001
    /\ call.string = <<"-","1","m"," ","-","1","s"," ","-","1","m","s"," ","-","1","u","s">>
    /\ ret.int = -61001001

\* C2 as stated: parse(a + " " + b) succeeds and equals parse(a) + parse(b) for any
\* two single tokens a and b of the formatter, the bare number included
C2_Additivity ==
    (call.op = "parse_int" /\ ~call.roundtrip) =>
        \A a \in Tokens(self), b \in Tokens(self) :
            (call.string = a \o <<" ">> \o b) =>
                /\ ret.status = "ok"
                /\ ret.int = parse_int(self, a).int + parse_int(self, b).int

\* the string from p on is a run of tokens, each matched exactly where the one
\* before it ended, the last one ending at the end of the string
RECURSIVE Consumed(_, _, _)
Consumed(pattern, s, p) ==
    \/ p = Len(s)
    \/ /\ MatchAt(pattern, s, p).found
       /\ Consumed(pattern, s, MatchAt(pattern, s, p).end)

\* C3: parse_int returns a value exactly when the trimmed input is wholly consumed
\* by back-to-back tokens; any other input ('1secondz' among them) raises the parse
\* error, and no value is returned
C3_WholeInputOrError ==
    (call.op = "parse_int") =>
        /\ (ret.status = "ok") <=> Consumed(self.parse_pattern, Strip(call.string), 0)
        /\ ret.status \in {"ok", "ValueError"}
        /\ (ret.status = "ValueError") => ret.index < Len(Strip(call.string))
        /\ (call.string = <<"1","s","e","c","o","n","d","z">>) => ret.status = "ValueError"

C3_Witness ==
    /\ call.op = "parse_int"
    /\ self = _FORMATTER
    /\ call.string = <<"1","s","e","c","o","n","d","z">>
    /\ ret.status = "ValueError"
    /\ ret.index = 7

\* C4: format_int(-v) emits the units of format_int(v), in the same order, with every
\* count negated and no count 0: each part carries its own minus sign
C4_SignDistribution ==
    (Formatting /\ ret.status = "ok" /\ call.us < 0) =>
        LET pos == format_int(Callee, -call.us, call.resolution, call.zero)
        IN  /\ Len(ret.parts) = Len(pos.parts)
            /\ \A i \in DOMAIN ret.parts :
                   /\ ret.parts[i].unit = pos.parts[i].unit
                   /\ ret.parts[i].n = -pos.parts[i].n
                   /\ ret.parts[i].n < 0
            /\ ret.str =
                   IF pos.parts = <<>> THEN call.zero
                   ELSE Join([i \in DOMAIN pos.parts |->
                            <<"-">> \o NatToStr(pos.parts[i].n) \o pos.parts[i].unit])

C4_Witness ==
    /\ call.op = "format_int"
    /\ self = _FORMATTER
    /\ call.us = -61001001
    /\ call.resolution = 1
    /\ ret.str = <<"-","1","m"," ","-","1","s"," ","-","1","m","s"," ","-","1","u","s">>

\* C5 as stated: format_int never emits a part whose unit duration is smaller than
\* resolution
C5_ResolutionFloor ==
    (Formatting /\ ret.status = "ok") =>
        \A i \in DOMAIN ret.parts :
            ~DtLess(Duration(ret.parts[i].unit), Int_(call.resolution))

\* C6 as stated: format_timedelta with its defaults drops a remainder below one
\* second; 1.1 seconds formats as "1s"
C6_SubSecondDropped ==
    (call.op = "format_timedelta" /\ call.us >= SECOND /\ call.delta.microseconds > 0) =>
        /\ \A i \in DOMAIN ret.parts :
               ~DtLess(Duration(ret.parts[i].unit), Int_(SECOND))
        /\ (call.us = 1100000) => ret.str = <<"1","s">>

\* the same mapping and the same set of output unit names, in any insertion order
SameArguments(a, b) ==
    /\ Len(a.durations) = Len(b.durations)
    /\ {a.durations[i] : i \in DOMAIN a.durations}
           = {b.durations[i] : i \in DOMAIN b.durations}
    /\ Len(a.format_units) = Len(b.format_units)
    /\ {a.format_units[i] : i \in DOMAIN a.format_units}
           = {b.format_units[i] : i \in DOMAIN b.format_units}

\* what the call of this state returns on formatter f
Apply(f, c) ==
    IF c.op = "parse_int" THEN parse_int(f, c.string)
    ELSE IF c.op = "parse" THEN parse(f, c.string)
    ELSE IF c.op = "format_int" THEN format_int(f, c.us, c.resolution, c.zero)
    ELSE IF c.op = "format" THEN format(f, c.delta, c.resolution, c.zero)
    ELSE ret

SameBehaviour(a) ==
    LET f == TimedeltaFormatter(a.durations, a.format_units)
    IN  /\ f.status = self.status
        /\ (self.status = "ok" /\ call.op # "idle") => Apply(f, call).status = ret.status
        /\ (self.status = "ok" /\ call.op # "idle") => Apply(f, call).int = ret.int
        /\ (self.status = "ok" /\ call.op # "idle") => Apply(f, call).str = ret.str

\* no two output units of the arguments have the same duration
DistinctOutputDurations(a) ==
    \A i, j \in DOMAIN a.format_units :
        (i # j /\ HasKey(a.durations, a.format_units[i])
               /\ HasKey(a.durations, a.format_units[j]))
            => ( \/ DtLess(GetItem(a.durations, a.format_units[i]),
                           GetItem(a.durations, a.format_units[j]))
                 \/ DtLess(GetItem(a.durations, a.format_units[j]),
                           GetItem(a.durations, a.format_units[i])) )

\* C7 as stated: formatters built from the same mapping and the same set of output
\* unit names, in any insertion order, return the same result or the same error
C7_AnyOrderAsStated ==
    \A a \in CtorArgs : SameArguments(a, args) => SameBehaviour(a)

\* C7 as amended: they do when no two output units have the same duration (the sort
\* is stable, so output units of equal duration keep the caller's order)
C7_AnyOrder ==
    \A a \in CtorArgs :
        (SameArguments(a, args) /\ DistinctOutputDurations(args)) => SameBehaviour(a)

C7_Witness ==
    /\ args = [durations |-> Reversed(Fractional),
               format_units |-> << <<"m","s">>, <<"h","a">> >>]
    /\ call.op = "format_int"
    /\ call.us = 7
    /\ call.resolution = 1
    /\ ret.str = <<"4","h","a"," ","1","m","s">>

\* C8: on the exact-ratio path (a float unit num/den, and the remainder of us*den by
\* num a multiple of den) the count is floor(us*den/num) and the remaining magnitude
\* r satisfies us*den = n*num + r*den; with ha = 3/2 and ms = 1 at resolution 1,
\* 7 formats as "4ha 1ms" and -7 as "-4ha -1ms"
C8_ExactRatio ==
    (Formatting /\ ret.status = "ok") =>
        /\ \A i \in DOMAIN ret.parts :
               LET dt == Duration(ret.parts[i].unit)
                   us == ret.steps[i].us
                   n  == Abs(ret.parts[i].n)
               IN  (dt.float /\ ((us * dt.den) % dt.num) % dt.den = 0) =>
                       /\ n = (us * dt.den) \div dt.num
                       /\ us * dt.den = n * dt.num + ret.steps[i].r * dt.den
        /\ (/\ {self.parse_durations[i] : i \in DOMAIN self.parse_durations}
                   = {Fractional[i] : i \in DOMAIN Fractional}
            /\ Len(self.format_units) = 2
            /\ call.op = "format_int"
            /\ call.resolution = 1) =>
               /\ (call.us = 7) => ret.str = <<"4","h","a"," ","1","m","s">>
               /\ (call.us = -7) => ret.str = <<"-","4","h","a"," ","-","1","m","s">>

C8_Witness ==
    /\ args = [durations |-> Fractional, format_units |-> << <<"h","a">>, <<"m","s">> >>]
    /\ call.op = "format"
    /\ call.us = -7
    /\ call.resolution = 1
    /\ ret.str = <<"-","4","h","a"," ","-","1","m","s">>
    /\ ret.steps = << [us |-> 7, r |-> 1], [us |-> 1, r |-> 0] >>

AllDigits(s) == s # <<>> /\ \A i \in DOMAIN s : IsDigit(s[i])

\* C9 as stated: a bare number is accepted as a base-unit token wherever whitespace
\* (or the end of the string) follows it
C9_BareNumber ==
    (call.op = "parse_int" /\ HasKey(self.parse_durations, <<>>)) =>
        LET s == Strip(call.string)
        IN  \A k \in 1..Len(s) :
                (/\ AllDigits(SubSeq(s, 1, k))
                 /\ (k = Len(s) \/ IsSpace(s[k + 1]))
                 /\ parse_int(self, SubSeq(s, k + 1, Len(s))).status = "ok")
                    => /\ ret.status = "ok"
                       /\ ret.int = StrToInt(SubSeq(s, 1, k)) * Duration(<<>>).num
                                    + parse_int(self, SubSeq(s, k + 1, Len(s))).int

RECURSIVE SumParts(_)
SumParts(parts) ==
    IF parts = <<>> THEN 0
    ELSE Head(parts).n * Duration(Head(parts).unit).num + SumParts(Tail(parts))

Max(a, b) == IF a > b THEN a ELSE b

====
